---------------------------- MODULE Spec2Model ----------------------------
(***************************************************************************)
(* The two build scripts of RISE: rise-reveal/script.py (copy and patch    *)
(* reveal.js into ./export) and classic/script.py (compile the stylesheet  *)
(* and vendor the exported reveal.js into rise/static).                    *)
(*                                                                         *)
(* Files are sequences of one-character strings, directories are functions *)
(* from entry names to nodes, and every Python function of the scripts is  *)
(* an operator from a world (the file system, the pending exception, the   *)
(* external processes started and the calls made) to a world.              *)
(***************************************************************************)
EXTENDS Integers, Sequences, FiniteSets, TLC

VARIABLES
    node_modules,    \* rise-reveal/node_modules
    export,          \* rise-reveal/export
    patch_file,      \* rise-reveal/chalkboard.js.patch (a hunk, or missing)
    c_node_modules,  \* classic/node_modules
    main_css,        \* classic/rise/static/main.css
    static,          \* the entries of classic/rise/static
    system,          \* platform.system()
    script,          \* which script.py the current process runs
    argv,            \* sys.argv[1:] of the current process
    idx,             \* position of the next argument of the loop in __main__
    exc,             \* the exception that ended the current process, or NoExc
    procs,           \* external processes started by the current process
    calls,           \* functions of the script called by the current process
    upstream         \* ghost: the export entries as the last copy() left them

vars == <<node_modules, export, patch_file, c_node_modules, main_css, static,
          system, script, argv, idx, exc, procs, calls, upstream>>

---------------------------------------------------------------------------
(* Bounds of the model. *)

MaxArgs == 2
MaxLines == 12

---------------------------------------------------------------------------
(* Text: what read_text, splitlines and str.replace do to a file's bytes.  *)

\* the line boundaries of str.splitlines that the model's alphabet holds
LineBoundaries == {"\n", "\r", "\f"}

RECURSIVE read_text_from(_, _)
read_text_from(b, i) ==
    IF i > Len(b) THEN <<>>
    ELSE IF b[i] = "\r"
         THEN <<"\n">> \o read_text_from(b, IF i < Len(b) /\ b[i + 1] = "\n"
                                            THEN i + 2 ELSE i + 1)
         ELSE <<b[i]>> \o read_text_from(b, i + 1)

\* Path.read_text(): text mode with universal newlines, "\r\n" and "\r"
\* arrive as "\n"
read_text(b) == read_text_from(b, 1)

RECURSIVE splitlines_from(_, _, _)
splitlines_from(t, i, cur) ==
    IF i > Len(t) THEN (IF cur = <<>> THEN <<>> ELSE <<cur>>)
    ELSE IF t[i] = "\r" /\ i < Len(t) /\ t[i + 1] = "\n"
         THEN <<cur \o <<"\r", "\n">>>> \o splitlines_from(t, i + 2, <<>>)
    ELSE IF t[i] \in LineBoundaries
         THEN <<Append(cur, t[i])>> \o splitlines_from(t, i + 1, <<>>)
    ELSE splitlines_from(t, i + 1, Append(cur, t[i]))

\* str.splitlines(keepends=True)
splitlines(t) == splitlines_from(t, 1, <<>>)

StartsAt(t, i, pat) ==
    /\ i + Len(pat) - 1 <= Len(t)
    /\ SubSeq(t, i, i + Len(pat) - 1) = pat

RECURSIVE str_replace_from(_, _, _, _)
str_replace_from(t, i, old, new) ==
    IF i > Len(t) THEN <<>>
    ELSE IF StartsAt(t, i, old)
         THEN new \o str_replace_from(t, i + Len(old), old, new)
         ELSE <<t[i]>> \o str_replace_from(t, i + 1, old, new)

\* str.replace(old, new)
str_replace(t, old, new) == str_replace_from(t, 1, old, new)

\* pat in line
str_contains(line, pat) == \E i \in 1..Len(line) : StartsAt(line, i, pat)

RECURSIVE re_sub_line_start_from(_, _, _, _)
re_sub_line_start_from(t, i, pat, repl) ==
    IF i > Len(t) THEN <<>>
    ELSE IF (i = 1 \/ t[i - 1] = "\n") /\ StartsAt(t, i, pat)
         THEN repl \o re_sub_line_start_from(t, i + Len(pat), pat, repl)
         ELSE <<t[i]>> \o re_sub_line_start_from(t, i + 1, pat, repl)

\* re.sub('^' + pat, repl, t, flags=re.MULTILINE) for a literal pat and repl
re_sub_line_start(t, pat, repl) == re_sub_line_start_from(t, 1, pat, repl)

---------------------------------------------------------------------------
(* The file system. *)

EmptyTree == [p \in {} |-> <<>>]
NoEntries == [n \in {} |-> <<>>]

\* a file or directory of files: kind is "file" or "dir"
FileNode == [kind |-> "file", tree |-> EmptyTree]
DirNode(t) == [kind |-> "dir", tree |-> t]

\* a directory of nodes, or its absence
Absent == [kind |-> "absent", entries |-> NoEntries]
Entries(e) == [kind |-> "dir", entries |-> e]

is_dir(node) == node.kind = "dir"
is_file(node) == node.kind = "file"

NoExc == [type |-> "", arg |-> <<>>]

World == [node_modules |-> node_modules, export |-> export,
          patch_file |-> patch_file, c_node_modules |-> c_node_modules,
          main_css |-> main_css, static |-> static, system |-> system,
          exc |-> NoExc, procs |-> procs, calls |-> calls,
          upstream |-> upstream]

Raise(w, type, arg) == [w EXCEPT !.exc = [type |-> type, arg |-> arg]]

\* an exception is on its way up: every statement that follows is skipped
Pending(w) == w.exc # NoExc

Call(w, name, depth) ==
    [w EXCEPT !.calls = Append(@, [name |-> name, depth |-> depth])]

Start(w, prog, args) ==
    [w EXCEPT !.procs = Append(@, [prog |-> prog, args |-> args])]

\* names of the directories and files the rise-reveal script works on
RevealJs == <<"r", "e", "v", "e", "a", "l", ".", "j", "s">>
Chalkboard == <<"r", "e", "v", "e", "a", "l", ".", "j", "s", "-", "c", "h", "a", "l", "k", "b", "o", "a", "r", "d">>
ChalkboardSrc == <<"r", "e", "v", "e", "a", "l", ".", "j", "s", "-", "p", "l", "u", "g", "i", "n", "s", "/", "c", "h", "a", "l", "k", "b", "o", "a", "r", "d">>

ExFile(w, d, p) ==
    /\ is_dir(w.export)
    /\ d \in DOMAIN w.export.entries
    /\ p \in DOMAIN w.export.entries[d].tree

ExRead(w, d, p) == w.export.entries[d].tree[p]

\* open('w', newline='') and write: no newline translation on the way out
ExWrite(w, d, p, text) ==
    IF Pending(w) THEN w
    ELSE [w EXCEPT !.export.entries[d].tree = (p :> text) @@ @]

\* shutil.copy(src, dst) inside one exported directory
shutil_copy(w, d, src, dst) ==
    IF Pending(w) THEN w
    ELSE IF ~ExFile(w, d, src) THEN Raise(w, "FileNotFoundError", src.name)
    ELSE ExWrite(w, d, dst, ExRead(w, d, src))

\* shutil.copytree(node_modules/<src>, export/<dst>)
copytree(w, src, dst) ==
    IF Pending(w) THEN w
    ELSE IF src \notin DOMAIN w.node_modules.entries
    THEN Raise(w, "FileNotFoundError", src)
    ELSE IF dst \in DOMAIN w.export.entries
    THEN Raise(w, "FileExistsError", dst)
    ELSE [w EXCEPT !.export.entries = (dst :> w.node_modules.entries[src]) @@ @]

\* backup as it would be without the is_file() test: taken on every run
backup_always(w, d, target, ups) == shutil_copy(w, d, target, ups)

\* if not upstream.is_file(): shutil.copy(target, upstream)
backup(w, d, target, ups) ==
    IF Pending(w) \/ ExFile(w, d, ups) THEN w ELSE shutil_copy(w, d, target, ups)

---------------------------------------------------------------------------
(* rise-reveal/script.py *)

EnvMessage(name) ==
    <<"Y", "o", "u", " ", "m", "u", "s", "t", " ", "r", "u", "n", " ", "\"", "n", "p", "m", " ", "i", "n", "s", "t", "a", "l", "l", "\"", " ", "b", "e", "f", "o", "r", "e", " ", "r", "u", "n", "n", "i", "n", "g", " ", "\"", "n", "p", "m", " ", "r", "u", "n", " ">> \o name \o <<"\"">>

\* the gate as it would be if the directory were not looked at
npm_installed_unchecked(w) == TRUE

npm_installed(w) == is_dir(w.node_modules)

\* wrapped(), up to the call of the decorated function: the function's body
\* follows unless the gate has raised
require_npm_install(name, w, depth) ==
    IF Pending(w) THEN w
    ELSE LET w1 == Call(w, name, depth)
         IN  IF ~npm_installed(w1)
             THEN Raise(w1, "EnvironmentError",
                        EnvMessage(str_replace(name, <<"_">>, <<"-">>)))
             ELSE w1

copy_body(w) ==
    IF Pending(w) THEN w
    ELSE LET w1 == IF is_dir(w.export) THEN [w EXCEPT !.export = Absent] ELSE w
             w2 == [w1 EXCEPT !.export = Entries(NoEntries)]
             w3 == copytree(w2, RevealJs, RevealJs)
             w4 == copytree(w3, ChalkboardSrc, Chalkboard)
         IN  [w4 EXCEPT !.upstream = w4.export.entries]

copy(w, depth) == copy_body(require_npm_install(<<"c", "o", "p", "y">>, w, depth))

CommentLine == 11

RECURSIVE css_loop(_, _)
css_loop(lines, i) ==
    IF i > Len(lines) THEN <<>>
    ELSE (IF i = CommentLine THEN <<"/", "*">> ELSE <<>>)
         \o lines[i] \o css_loop(lines, i + 1)

\* the text patch_reveal_css writes for the bytes of the backup
css_patched(bytes) == css_loop(splitlines(read_text(bytes)), 1)

patch_reveal_css_body(w) ==
    LET target == [sub |-> "css", name |-> <<"r", "e", "v", "e", "a", "l", ".", "c", "s", "s">>]
        ups == [sub |-> "css", name |-> <<"r", "e", "v", "e", "a", "l", ".", "c", "s", "s", ".", "u", "p", "s", "t", "r", "e", "a", "m">>]
        w1 == backup(w, RevealJs, target, ups)
    IN  IF Pending(w1) THEN w1
        ELSE ExWrite(w1, RevealJs, target, css_patched(ExRead(w1, RevealJs, ups)))

patch_reveal_css(w, depth) ==
    patch_reveal_css_body(require_npm_install(<<"p", "a", "t", "c", "h", "_", "r", "e", "v", "e", "a", "l", "_", "c", "s", "s">>, w, depth))

notes_js_patched(bytes) ==
    LET t0 == read_text(bytes)
        t1 == str_replace(t0, <<"s", "r", "c", "$", "=">>, <<"s", "r", "c", "*", "=">>)
        t2 == str_replace(t1, <<"k", "e", "y", "C", "o", "d", "e", ":", " ", "8", "3">>, <<"k", "e", "y", "C", "o", "d", "e", ":", " ", "8", "4">>)
    IN  str_replace(t2, <<"k", "e", "y", ":", " ", "'", "S", "'">>, <<"k", "e", "y", ":", " ", "'", "T", "'">>)

InjectedCss ==
    <<"#", "s", "p", "e", "a", "k", "e", "r", "-", "c", "o", "n", "t", "r", "o", "l", "s", ">", ".", "s", "p", "e", "a", "k", "e", "r", "-", "c", "o", "n", "t", "r", "o", "l", "s", "-", "n", "o", "t", "e", "s", " ", ".", "i", "n", "n", "e", "r", "_", "c", "e", "l", "l", ">", ".", "c", "t", "b", "_", "h", "i", "d", "e", "s", "h", "o", "w", ",", " ", "\n">>
    \o <<"#", "s", "p", "e", "a", "k", "e", "r", "-", "c", "o", "n", "t", "r", "o", "l", "s", ">", ".", "s", "p", "e", "a", "k", "e", "r", "-", "c", "o", "n", "t", "r", "o", "l", "s", "-", "n", "o", "t", "e", "s", " ", ".", "i", "n", "n", "e", "r", "_", "c", "e", "l", "l", ">", ".", "i", "n", "p", "u", "t", "_", "a", "r", "e", "a", " ", "{", " ", "\n">>
    \o <<" ", " ", " ", " ", "d", "i", "s", "p", "l", "a", "y", ":", " ", "n", "o", "n", "e", ";", " ", "\n">>
    \o <<"}", "\n">>
    \o <<"\n">>

RECURSIVE html_loop(_, _)
html_loop(lines, i) ==
    IF i > Len(lines) THEN <<>>
    ELSE (IF str_contains(lines[i], <<"L", "a", "y", "o", "u", "t", " ", "s", "e", "l", "e", "c", "t", "o", "r">>) THEN InjectedCss ELSE <<>>)
         \o lines[i] \o html_loop(lines, i + 1)

notes_html_patched(bytes) == html_loop(splitlines(read_text(bytes)), 1)

patch_notes_js(w) ==
    LET target == [sub |-> "plugin/notes", name |-> <<"n", "o", "t", "e", "s", ".", "j", "s">>]
        ups == [sub |-> "plugin/notes", name |-> <<"n", "o", "t", "e", "s", ".", "j", "s", ".", "p", "a", "t", "c", "h", "e", "d">>]
        w1 == backup(w, RevealJs, target, ups)
    IN  IF Pending(w1) THEN w1
        ELSE ExWrite(w1, RevealJs, target, notes_js_patched(ExRead(w1, RevealJs, ups)))

patch_notes_html(w) ==
    LET target == [sub |-> "plugin/notes", name |-> <<"n", "o", "t", "e", "s", ".", "h", "t", "m", "l">>]
        ups == [sub |-> "plugin/notes", name |-> <<"n", "o", "t", "e", "s", ".", "h", "t", "m", "l", ".", "p", "a", "t", "c", "h", "e", "d">>]
        w1 == backup(w, RevealJs, target, ups)
    IN  IF Pending(w1) THEN w1
        ELSE ExWrite(w1, RevealJs, target, notes_html_patched(ExRead(w1, RevealJs, ups)))

patch_notes_body(w) == patch_notes_html(patch_notes_js(w))

patch_notes(w, depth) ==
    patch_notes_body(require_npm_install(<<"p", "a", "t", "c", "h", "_", "n", "o", "t", "e", "s">>, w, depth))

replacement_text ==
    <<"b", "o", "d", "y", ".", "n", "o", "t", "e", "b", "o", "o", "k", "_", "a", "p", "p", ".", "r", "i", "s", "e", "-", "e", "n", "a", "b", "l", "e", "d", " ", "{">> \o <<"\n">>
    \o <<" ", " ", " ", " ", "/", "*", " ", "P", "A", "T", "C", "H", "E", "D", " ", "b", "y", " ", "p", "a", "t", "c", "h", "-", "r", "e", "v", "e", "a", "l", "-", "t", "h", "e", "m", "e", "s", ".", "s", "h", " ", "*", "/">> \o <<"\n">>
    \o <<" ", " ", " ", " ", "b", "a", "c", "k", "g", "r", "o", "u", "n", "d", "-", "a", "t", "t", "a", "c", "h", "m", "e", "n", "t", ":", " ", "f", "i", "x", "e", "d", " ", "!", "i", "m", "p", "o", "r", "t", "a", "n", "t", ";">>

themes_patched(bytes) ==
    re_sub_line_start(read_text(bytes), <<"b", "o", "d", "y", " ", "{">>, replacement_text)

\* PurePath.suffix: from the last dot of the name on
RECURSIVE last_dot(_, _)
last_dot(name, i) ==
    IF i < 1 THEN 0 ELSE IF name[i] = "." THEN i ELSE last_dot(name, i - 1)

suffix(name) ==
    LET k == last_dot(name, Len(name))
    IN  IF k <= 1 THEN <<>> ELSE SubSeq(name, k, Len(name))

\* PurePath.with_suffix(sfx)
with_suffix(p, sfx) ==
    [p EXCEPT !.name = SubSeq(@, 1, Len(@) - Len(suffix(@))) \o sfx]

EndsWith(name, pat) ==
    Len(name) >= Len(pat) /\ SubSeq(name, Len(name) - Len(pat) + 1, Len(name)) = pat

\* (root / 'export/reveal.js/css/theme/').glob('*.css')
glob_theme_css(w) ==
    IF is_dir(w.export) /\ RevealJs \in DOMAIN w.export.entries
    THEN {p \in DOMAIN w.export.entries[RevealJs].tree :
            p.sub = "css/theme" /\ EndsWith(p.name, <<".", "c", "s", "s">>)}
    ELSE {}

patch_theme(w, target_css) ==
    LET upstream_css == with_suffix(target_css, suffix(target_css.name) \o <<".", "p", "a", "t", "c", "h", "e", "d">>)
        w1 == backup(w, RevealJs, target_css, upstream_css)
    IN  IF Pending(w1) THEN w1
        ELSE ExWrite(w1, RevealJs, target_css,
                     themes_patched(ExRead(w1, RevealJs, upstream_css)))

RECURSIVE patch_themes_loop(_, _)
patch_themes_loop(w, todo) ==
    IF todo = {} \/ Pending(w) THEN w
    ELSE LET p == CHOOSE q \in todo : TRUE
         IN  patch_themes_loop(patch_theme(w, p), todo \ {p})

patch_reveal_themes_body(w) ==
    IF Pending(w) THEN w ELSE patch_themes_loop(w, glob_theme_css(w))

patch_reveal_themes(w, depth) ==
    patch_reveal_themes_body(require_npm_install(<<"p", "a", "t", "c", "h", "_", "r", "e", "v", "e", "a", "l", "_", "t", "h", "e", "m", "e", "s">>, w, depth))

\* the first line-start position of t at which pat stands, 0 when none
hunk_position(t, pat) ==
    LET hits == {i \in 1..Len(t) : (i = 1 \/ t[i - 1] = "\n") /\ StartsAt(t, i, pat)}
    IN  IF hits = {} THEN 0 ELSE CHOOSE i \in hits : \A j \in hits : i <= j

\* the outcome of git apply <patch> on the current chalkboard.js: the hunk's
\* old lines must stand in the file as they are
git_apply_result(w, target) ==
    IF ~w.patch_file.exists \/ ~ExFile(w, Chalkboard, target)
    THEN Raise(w, "CalledProcessError", <<"g", "i", "t">>)
    ELSE LET t == ExRead(w, Chalkboard, target)
             k == hunk_position(t, w.patch_file.old)
         IN  IF k = 0 THEN Raise(w, "CalledProcessError", <<"g", "i", "t">>)
             ELSE ExWrite(w, Chalkboard, target,
                          SubSeq(t, 1, k - 1) \o w.patch_file.new
                          \o SubSeq(t, k + Len(w.patch_file.old), Len(t)))

\* subprocess.check_output(['git', 'apply', '--unsafe-paths',
\*                          '--directory=export/reveal.js-chalkboard/', patch_file])
git_apply(w) ==
    IF Pending(w) THEN w
    ELSE git_apply_result(Start(w, [sub |-> "", name |-> <<"g", "i", "t">>],
                                <<"apply", "--unsafe-paths",
                                  "--directory=export/reveal.js-chalkboard/",
                                  "chalkboard.js.patch">>),
                          [sub |-> "", name |-> <<"c", "h", "a", "l", "k", "b", "o", "a", "r", "d", ".", "j", "s">>])

patch_chalkboard_body(w) ==
    LET target_js == [sub |-> "", name |-> <<"c", "h", "a", "l", "k", "b", "o", "a", "r", "d", ".", "j", "s">>]
        upstream_js == [sub |-> "", name |-> <<"c", "h", "a", "l", "k", "b", "o", "a", "r", "d", ".", "j", "s", ".", "p", "a", "t", "c", "h", "e", "d">>]
    IN  git_apply(backup(w, Chalkboard, target_js, upstream_js))

patch_chalkboard(w, depth) ==
    patch_chalkboard_body(require_npm_install(<<"p", "a", "t", "c", "h", "_", "c", "h", "a", "l", "k", "b", "o", "a", "r", "d">>, w, depth))

\* patch as it would be with the notes rule ahead of the CSS rule
patch_body_reordered(w, depth) ==
    LET w1 == patch_notes(w, depth + 1)
        w2 == patch_reveal_css(w1, depth + 1)
        w3 == patch_reveal_themes(w2, depth + 1)
    IN  patch_chalkboard(w3, depth + 1)

\* patch as it would be if it copied the upstream files afresh, as build does
patch_body_recopy(w, depth) ==
    LET w0 == copy_body(w)
        w1 == patch_reveal_css(w0, depth + 1)
        w2 == patch_notes(w1, depth + 1)
        w3 == patch_reveal_themes(w2, depth + 1)
    IN  patch_chalkboard(w3, depth + 1)

patch_body(w, depth) ==
    LET w1 == patch_reveal_css(w, depth + 1)
        w2 == patch_notes(w1, depth + 1)
        w3 == patch_reveal_themes(w2, depth + 1)
    IN  patch_chalkboard(w3, depth + 1)

patch(w, depth) == patch_body(require_npm_install(<<"p", "a", "t", "c", "h">>, w, depth), depth)

build_body(w, depth) == patch(copy(w, depth + 1), depth + 1)

build(w, depth) == build_body(require_npm_install(<<"b", "u", "i", "l", "d">>, w, depth), depth)

clean(w, depth) ==
    LET w0 == Call(w, <<"c", "l", "e", "a", "n">>, depth)
        w1 == IF is_dir(w0.node_modules) THEN [w0 EXCEPT !.node_modules = Absent]
              ELSE w0
    IN  IF is_dir(w1.export) THEN [w1 EXCEPT !.export = Absent] ELSE w1

---------------------------------------------------------------------------
(* classic/script.py *)

AbsentNode == [kind |-> "absent", tree |-> EmptyTree]

classic_npm_installed(w) == is_dir(w.c_node_modules)

classic_require_npm_install(name, w, depth) ==
    IF Pending(w) THEN w
    ELSE LET w1 == Call(w, name, depth)
         IN  IF ~classic_npm_installed(w1)
             THEN Raise(w1, "EnvironmentError",
                        EnvMessage(str_replace(name, <<"_">>, <<"-">>)))
             ELSE w1

\* the names in a directory that glob('reveal.js*') yields
glob_reveal_js(entries) == {n \in DOMAIN entries : StartsAt(n, 1, <<"r", "e", "v", "e", "a", "l", ".", "j", "s">>)}

\* the orders in which a glob may yield a set of names
Orders(S) ==
    {s \in [1..Cardinality(S) -> S] : \A i, j \in DOMAIN s : i # j => s[i] # s[j]}

Remove(entries, n) == [m \in DOMAIN entries \ {n} |-> entries[m]]

\* shutil.rmtree(path) on an entry of rise/static
rmtree_static(w, n) ==
    IF Pending(w) THEN w
    ELSE IF ~is_dir(w.static[n]) THEN Raise(w, "NotADirectoryError", n)
    ELSE [w EXCEPT !.static = Remove(@, n)]

RECURSIVE classic_clean_loop(_, _, _)
classic_clean_loop(w, order, i) ==
    IF i > Len(order) \/ Pending(w) THEN w
    ELSE classic_clean_loop(rmtree_static(w, order[i]), order, i + 1)

classic_clean(w, depth, order) ==
    LET w0 == Call(w, <<"c", "l", "e", "a", "n">>, depth)
        w1 == IF is_dir(w0.c_node_modules)
              THEN [w0 EXCEPT !.c_node_modules = AbsentNode] ELSE w0
        w2 == IF is_file(w1.main_css)
              THEN [w1 EXCEPT !.main_css = AbsentNode] ELSE w1
    IN  classic_clean_loop(w2, order, 1)

\* subprocess.check_output(argv): the process is started; it may be missing,
\* exit non-zero, or exit with 0
check_output(w, prog, args, outcome) ==
    IF Pending(w) THEN w
    ELSE LET w1 == Start(w, prog, args)
         IN  IF outcome = "ok" THEN w1 ELSE Raise(w1, outcome, prog.name)

platform_suffix(w, path) ==
    IF w.system = "Windows" THEN with_suffix(path, <<".", "c", "m", "d">>) ELSE path

\* lessc --autoprefix main.less main.css, once it has exited with 0, has
\* written main.css
less_body(w, outcome) ==
    LET lessc == platform_suffix(w, [sub |-> "node_modules/.bin", name |-> <<"l", "e", "s", "s", "c">>])
        w1 == check_output(w, lessc, <<"--autoprefix", "src/less/main.less",
                                       "rise/static/main.css">>, outcome)
    IN  IF Pending(w1) \/ is_dir(w1.main_css) THEN w1
        ELSE [w1 EXCEPT !.main_css = FileNode]

less(w, depth, outcome) ==
    less_body(classic_require_npm_install(<<"l", "e", "s", "s">>, w, depth), outcome)

\* lessc is read in watch_less before anything is bound to it
watch_less_windows(w) ==
    IF Pending(w) \/ w.system # "Windows" THEN w
    ELSE Raise(w, "UnboundLocalError", <<"l", "e", "s", "s", "c">>)

watch_less_body(w, outcome) ==
    LET watch == [sub |-> "node_modules/.bin", name |-> <<"w", "a", "t", "c", "h">>]
    IN  check_output(watch_less_windows(w), watch,
                     <<"npm run less", "src/less">>, outcome)

watch_less(w, depth, outcome) ==
    watch_less_body(classic_require_npm_install(<<"w", "a", "t", "c", "h", "_", "l", "e", "s", "s">>, w, depth), outcome)

\* shutil.copytree(../rise-reveal/export/<n>, rise/static/<n>)
copytree_static(w, n) ==
    IF Pending(w) THEN w
    ELSE IF n \in DOMAIN w.static THEN Raise(w, "FileExistsError", n)
    ELSE [w EXCEPT !.static = (n :> w.export.entries[n]) @@ @]

RECURSIVE install_loop(_, _, _)
install_loop(w, order, i) ==
    IF i > Len(order) \/ Pending(w) THEN w
    ELSE install_loop(copytree_static(w, order[i]), order, i + 1)

install_rise_reveal(w, depth, order) ==
    install_loop(classic_require_npm_install(<<"i", "n", "s", "t", "a", "l", "l", "_", "r", "i", "s", "e", "_", "r", "e", "v", "e", "a", "l">>, w, depth),
                 order, 1)

---------------------------------------------------------------------------
(* __main__: for arg in sys.argv[1:]: globals()[arg.replace('-', '_')]() *)

RevealFunctions ==
    {<<"c", "o", "p", "y">>, <<"p", "a", "t", "c", "h", "_", "r", "e", "v", "e", "a", "l", "_", "c", "s", "s">>, <<"p", "a", "t", "c", "h", "_", "n", "o", "t", "e", "s">>, <<"p", "a", "t", "c", "h", "_", "r", "e", "v", "e", "a", "l", "_", "t", "h", "e", "m", "e", "s">>,
     <<"p", "a", "t", "c", "h", "_", "c", "h", "a", "l", "k", "b", "o", "a", "r", "d">>, <<"b", "u", "i", "l", "d">>, <<"p", "a", "t", "c", "h">>, <<"c", "l", "e", "a", "n">>}

ClassicFunctions == {<<"c", "l", "e", "a", "n">>, <<"l", "e", "s", "s">>, <<"w", "a", "t", "c", "h", "_", "l", "e", "s", "s">>, <<"i", "n", "s", "t", "a", "l", "l", "_", "r", "i", "s", "e", "_", "r", "e", "v", "e", "a", "l">>}

\* the other names of the module: the imports, root and the decorator, none
\* of which can be called without arguments
OtherGlobals(s) ==
    {<<"f", "u", "n", "c", "t", "o", "o", "l", "s">>, <<"p", "a", "t", "h", "l", "i", "b">>, <<"s", "h", "u", "t", "i", "l">>, <<"s", "u", "b", "p", "r", "o", "c", "e", "s", "s">>, <<"s", "y", "s">>, <<"r", "o", "o", "t">>,
     <<"r", "e", "q", "u", "i", "r", "e", "_", "n", "p", "m", "_", "i", "n", "s", "t", "a", "l", "l">>}
    \cup (IF s = "rise-reveal" THEN {<<"r", "e">>} ELSE {<<"p", "l", "a", "t", "f", "o", "r", "m">>})

Functions(s) == IF s = "rise-reveal" THEN RevealFunctions ELSE ClassicFunctions

Key == str_replace(argv[idx], <<"-">>, <<"_">>)

Running(s) == script = s /\ idx <= Len(argv) /\ exc = NoExc

Dispatch(s, name) == Running(s) /\ Key = name

\* the call returned or raised: the loop moves on or the process ends
Commit(r) ==
    /\ node_modules' = r.node_modules
    /\ export' = r.export
    /\ c_node_modules' = r.c_node_modules
    /\ main_css' = r.main_css
    /\ static' = r.static
    /\ exc' = r.exc
    /\ procs' = r.procs
    /\ calls' = r.calls
    /\ upstream' = r.upstream
    /\ idx' = idx + 1
    /\ UNCHANGED <<patch_file, system, script, argv>>

Copy == Dispatch("rise-reveal", <<"c", "o", "p", "y">>) /\ Commit(copy(World, 0))

PatchRevealCss ==
    Dispatch("rise-reveal", <<"p", "a", "t", "c", "h", "_", "r", "e", "v", "e", "a", "l", "_", "c", "s", "s">>) /\ Commit(patch_reveal_css(World, 0))

PatchNotes == Dispatch("rise-reveal", <<"p", "a", "t", "c", "h", "_", "n", "o", "t", "e", "s">>) /\ Commit(patch_notes(World, 0))

PatchRevealThemes ==
    /\ Dispatch("rise-reveal", <<"p", "a", "t", "c", "h", "_", "r", "e", "v", "e", "a", "l", "_", "t", "h", "e", "m", "e", "s">>)
    /\ Commit(patch_reveal_themes(World, 0))

PatchChalkboard ==
    Dispatch("rise-reveal", <<"p", "a", "t", "c", "h", "_", "c", "h", "a", "l", "k", "b", "o", "a", "r", "d">>) /\ Commit(patch_chalkboard(World, 0))

Build == Dispatch("rise-reveal", <<"b", "u", "i", "l", "d">>) /\ Commit(build(World, 0))

Patch == Dispatch("rise-reveal", <<"p", "a", "t", "c", "h">>) /\ Commit(patch(World, 0))

Clean == Dispatch("rise-reveal", <<"c", "l", "e", "a", "n">>) /\ Commit(clean(World, 0))

ClassicClean ==
    /\ Dispatch("classic", <<"c", "l", "e", "a", "n">>)
    /\ \E order \in Orders(glob_reveal_js(static)) :
          Commit(classic_clean(World, 0, order))

Outcomes == {"ok", "CalledProcessError", "FileNotFoundError"}

Less ==
    /\ Dispatch("classic", <<"l", "e", "s", "s">>)
    /\ \E outcome \in Outcomes : Commit(less(World, 0, outcome))

WatchLess ==
    /\ Dispatch("classic", <<"w", "a", "t", "c", "h", "_", "l", "e", "s", "s">>)
    /\ \E outcome \in Outcomes : Commit(watch_less(World, 0, outcome))

InstallRiseReveal ==
    /\ Dispatch("classic", <<"i", "n", "s", "t", "a", "l", "l", "_", "r", "i", "s", "e", "_", "r", "e", "v", "e", "a", "l">>)
    /\ \E order \in Orders(glob_reveal_js(export.entries)) :
          Commit(install_rise_reveal(World, 0, order))

\* the lookup as it would be if an unknown name were skipped
lookup_ignored(w, name) == w

\* globals()[name] of a name the module does not define
lookup_failure(w, name) == Raise(w, "KeyError", name)

\* globals()[name]() of a module, a path or the decorator
not_callable(w, name) == Raise(w, "TypeError", name)

LookupFailure ==
    /\ Running(script)
    /\ Key \notin Functions(script) \cup OtherGlobals(script)
    /\ Commit(lookup_failure(World, Key))

NotCallable ==
    /\ Running(script)
    /\ Key \in OtherGlobals(script)
    /\ Commit(not_callable(World, Key))

---------------------------------------------------------------------------
(* The inputs: command lines, npm packages, patch files, earlier trees. *)

RevealArgs ==
    {<<"c", "o", "p", "y">>, <<"p", "a", "t", "c", "h", "-", "r", "e", "v", "e", "a", "l", "-", "c", "s", "s">>, <<"p", "a", "t", "c", "h", "-", "n", "o", "t", "e", "s">>, <<"p", "a", "t", "c", "h", "-", "r", "e", "v", "e", "a", "l", "-", "t", "h", "e", "m", "e", "s">>,
     <<"p", "a", "t", "c", "h", "-", "c", "h", "a", "l", "k", "b", "o", "a", "r", "d">>, <<"b", "u", "i", "l", "d">>, <<"p", "a", "t", "c", "h">>, <<"c", "l", "e", "a", "n">>, <<"p", "a", "t", "c", "h", "_", "n", "o", "t", "e", "s">>,
     <<"r", "o", "o", "t">>, <<"l", "i", "n", "t">>}

ClassicArgs ==
    {<<"c", "l", "e", "a", "n">>, <<"l", "e", "s", "s">>, <<"w", "a", "t", "c", "h", "-", "l", "e", "s", "s">>, <<"i", "n", "s", "t", "a", "l", "l", "-", "r", "i", "s", "e", "-", "r", "e", "v", "e", "a", "l">>, <<"w", "a", "t", "c", "h", "_", "l", "e", "s", "s">>,
     <<"s", "y", "s">>, <<"b", "u", "i", "l", "d">>}

Args(s) == IF s = "rise-reveal" THEN RevealArgs ELSE ClassicArgs

Argvs(s) == UNION {[1..n -> Args(s)] : n \in 0..MaxArgs}

NoProcess == argv = <<>> /\ idx = 1 /\ exc = NoExc /\ procs = <<>> /\ calls = <<>>

\* a new process of the same script, when none is running
StartRun ==
    /\ NoProcess
    /\ \E a \in Argvs(script) : argv' = a
    /\ UNCHANGED <<node_modules, export, patch_file, c_node_modules, main_css,
                   static, system, script, idx, exc, procs, calls, upstream>>

\* the loop has run out of arguments, or an exception has left it: the
\* process ends and only the file system stays
Exit ==
    /\ ~NoProcess
    /\ idx > Len(argv) \/ exc # NoExc
    /\ argv' = <<>>
    /\ idx' = 1
    /\ exc' = NoExc
    /\ procs' = <<>>
    /\ calls' = <<>>
    /\ UNCHANGED <<node_modules, export, patch_file, c_node_modules, main_css,
                   static, system, script, upstream>>

\* n lines "a" ended by eol, line k reading "html, body {" instead, the last
\* line with or without its end
CssText(n, eol, k, ended) ==
    LET line(i) == (IF i = k THEN <<"h", "t", "m", "l", ",", " ", "b", "o", "d", "y", " ", "{">> ELSE <<"a">>)
                   \o (IF i = n /\ ~ended THEN <<>> ELSE eol)
        RECURSIVE upto(_)
        upto(i) == IF i > n THEN <<>> ELSE line(i) \o upto(i + 1)
    IN  upto(1)

Eols == {<<"\n">>, <<"\r", "\n">>, <<"\r">>, <<"\f">>}

CssTexts ==
    {CssText(n, eol, k, ended) :
        n \in 0..MaxLines, eol \in Eols, k \in {0, CommentLine}, ended \in BOOLEAN}

css_path == [sub |-> "css", name |-> <<"r", "e", "v", "e", "a", "l", ".", "c", "s", "s">>]
notes_js_path == [sub |-> "plugin/notes", name |-> <<"n", "o", "t", "e", "s", ".", "j", "s">>]
notes_html_path == [sub |-> "plugin/notes", name |-> <<"n", "o", "t", "e", "s", ".", "h", "t", "m", "l">>]
theme_black_path == [sub |-> "css/theme", name |-> <<"b", "l", "a", "c", "k", ".", "c", "s", "s">>]
theme_sky_path == [sub |-> "css/theme", name |-> <<"s", "k", "y", ".", "c", "s", "s">>]
theme_readme_path == [sub |-> "css/theme", name |-> <<"R", "E", "A", "D", "M", "E", ".", "m", "d">>]
chalkboard_js_path == [sub |-> "", name |-> <<"c", "h", "a", "l", "k", "b", "o", "a", "r", "d", ".", "j", "s">>]

NotesJs == <<"a", "[", "s", "r", "c", "$", "=", "\"", "n", "o", "t", "e", "s", ".", "j", "s", "\"", "]", "\n", "{", "k", "e", "y", "C", "o", "d", "e", ":", " ", "8", "3", ",", " ", "k", "e", "y", ":", " ", "'", "S", "'", "}", "\r", "\n">>
NotesHtml == <<"<", "s", "t", "y", "l", "e", ">", "\n", "/", "*", " ", "L", "a", "y", "o", "u", "t", " ", "s", "e", "l", "e", "c", "t", "o", "r", " ", "*", "/", "\n", "<", "/", "s", "t", "y", "l", "e", ">", "\n">>
ThemeBlack == <<"b", "o", "d", "y", " ", "{", "\n", " ", " ", "a", ";", "\n", "}", "\n", ".", "x", " ", "b", "o", "d", "y", " ", "{", "\n", "}", "\n">>
ThemeSky == <<"p", " ", "{", "}", "\r", "\n", "b", "o", "d", "y", " ", "{", "\r", "\n", "}">>
ChalkboardJs == <<"v", "a", "r", " ", "a", ";", "\n", "o", "l", "d", "(", ")", ";", "\n", "v", "a", "r", " ", "b", ";", "\n">>

RevealTree(css, withHtml) ==
    LET base == (css_path :> css) @@ (notes_js_path :> NotesJs)
                @@ (theme_black_path :> ThemeBlack) @@ (theme_sky_path :> ThemeSky)
                @@ (theme_readme_path :> <<"b", "o", "d", "y", " ", "{", "\n">>)
    IN  IF withHtml THEN (notes_html_path :> NotesHtml) @@ base ELSE base

ChalkboardTree == (chalkboard_js_path :> ChalkboardJs)

\* what npm install may have put under node_modules
Package(css, withHtml, withChalkboard) ==
    LET reveal == (RevealJs :> DirNode(RevealTree(css, withHtml)))
    IN  IF withChalkboard THEN (ChalkboardSrc :> DirNode(ChalkboardTree)) @@ reveal
        ELSE reveal

FullPackage == Package(CssText(MaxLines, <<"\n">>, CommentLine, TRUE), TRUE, TRUE)

Packages ==
    {FullPackage,
     Package(CssText(2, <<"\r", "\n">>, 0, TRUE), TRUE, TRUE),
     Package(CssText(MaxLines, <<"\n">>, CommentLine, TRUE), FALSE, TRUE),
     Package(CssText(MaxLines, <<"\n">>, CommentLine, TRUE), TRUE, FALSE)}

NoPatchFile == [exists |-> FALSE, old |-> <<>>, new |-> <<>>]
Hunk == [exists |-> TRUE, old |-> <<"o", "l", "d", "(", ")", ";", "\n">>, new |-> <<"n", "e", "w", "(", ")", ";", "\n", "m", "o", "r", "e", "(", ")", ";", "\n">>]

\* what stands under rise-reveal before the script first runs: node_modules
\* and the patch file
Installations ==
    {<<Absent, Hunk>>, <<Entries(FullPackage), NoPatchFile>>}
    \cup {<<Entries(p), Hunk>> : p \in Packages}

Blank == [node_modules |-> Entries(FullPackage), export |-> Absent,
          patch_file |-> Hunk, c_node_modules |-> AbsentNode,
          main_css |-> AbsentNode, static |-> NoEntries, system |-> "Linux",
          exc |-> NoExc, procs |-> <<>>, calls |-> <<>>, upstream |-> NoEntries]

\* the export trees the classic script may find next door
Exports == {Absent, copy(Blank, 0).export, build(Blank, 0).export}

Statics ==
    {NoEntries,
     (<<"c", "u", "s", "t", "o", "m", ".", "c", "s", "s">> :> FileNode),
     (<<"r", "e", "v", "e", "a", "l", ".", "j", "s", ".", "m", "a", "p">> :> FileNode) @@ (<<"c", "u", "s", "t", "o", "m", ".", "c", "s", "s">> :> FileNode)}

InitProcess == NoProcess

InitReveal ==
    /\ script = "rise-reveal"
    /\ \E i \in Installations : node_modules = i[1] /\ patch_file = i[2]
    /\ export = Absent
    /\ upstream = NoEntries
    /\ c_node_modules = AbsentNode
    /\ main_css = AbsentNode
    /\ static = NoEntries
    /\ system = "Linux"

InitClassic ==
    /\ script = "classic"
    /\ node_modules = Entries(FullPackage)
    /\ export \in Exports
    /\ patch_file = Hunk
    /\ upstream = copy(Blank, 0).upstream
    /\ c_node_modules \in {AbsentNode, DirNode(EmptyTree)}
    /\ main_css \in {AbsentNode, FileNode}
    /\ static \in Statics
    /\ system \in {"Linux", "Darwin", "Windows"}

Init == InitProcess /\ (InitReveal \/ InitClassic)

Next ==
    \/ StartRun
    \/ Exit
    \/ Copy
    \/ PatchRevealCss
    \/ PatchNotes
    \/ PatchRevealThemes
    \/ PatchChalkboard
    \/ Build
    \/ Patch
    \/ Clean
    \/ ClassicClean
    \/ Less
    \/ WatchLess
    \/ InstallRiseReveal
    \/ LookupFailure
    \/ NotCallable

Spec == Init /\ [][Next]_vars

(* One process "script.py copy <op> <op>" per patch operation and package. *)

PatchArgs ==
    {<<"p", "a", "t", "c", "h", "-", "r", "e", "v", "e", "a", "l", "-", "c", "s", "s">>, <<"p", "a", "t", "c", "h", "-", "n", "o", "t", "e", "s">>, <<"p", "a", "t", "c", "h", "-", "r", "e", "v", "e", "a", "l", "-", "t", "h", "e", "m", "e", "s">>,
     <<"p", "a", "t", "c", "h", "-", "c", "h", "a", "l", "k", "b", "o", "a", "r", "d">>, <<"p", "a", "t", "c", "h">>}

InitTwice ==
    /\ script = "rise-reveal"
    /\ \E a \in PatchArgs : argv = <<<<"c", "o", "p", "y">>, a, a>>
    /\ idx = 1
    /\ exc = NoExc
    /\ procs = <<>>
    /\ calls = <<>>
    /\ node_modules \in {Entries(Package(css, TRUE, TRUE)) : css \in CssTexts}
    /\ export = Absent
    /\ patch_file = Hunk
    /\ upstream = NoEntries
    /\ c_node_modules = AbsentNode
    /\ main_css = AbsentNode
    /\ static = NoEntries
    /\ system = "Linux"

NextTwice ==
    \/ Copy
    \/ PatchRevealCss
    \/ PatchNotes
    \/ PatchRevealThemes
    \/ PatchChalkboard
    \/ Patch

SpecTwice == InitTwice /\ [][NextTwice]_vars

---------------------------------------------------------------------------
(* The properties checked of the scripts. *)

Scripts == {"rise-reveal", "classic"}

\* the file system of both scripts
FS == <<node_modules, export, patch_file, c_node_modules, main_css, static>>

\* the step taken is the call the loop of __main__ makes for argv[idx]
Step(s) == Running(s) /\ idx' = idx + 1

\* a command-line argument as an identifier, and an identifier as npm names it
Underscore(a) == [i \in DOMAIN a |-> IF a[i] = "-" THEN "_" ELSE a[i]]
Hyphenated(a) == [i \in DOMAIN a |-> IF a[i] = "_" THEN "-" ELSE a[i]]

IsBackupName(name) == EndsWith(name, <<".", "u", "p", "s", "t", "r", "e", "a", "m">>) \/ EndsWith(name, <<".", "p", "a", "t", "c", "h", "e", "d">>)

\* the target a backup was taken of: the name without the marker suffix
TargetOf(p) == [p EXCEPT !.name = SubSeq(@, 1, Len(@) - Len(suffix(@)))]

ExportFiles(e) == {<<d, p>> : d \in DOMAIN e.entries, p \in UNION {DOMAIN e.entries[x].tree : x \in DOMAIN e.entries}}

Files(e) == {f \in ExportFiles(e) : f[2] \in DOMAIN e.entries[f[1]].tree}

Backups(e) == {f \in Files(e) : IsBackupName(f[2].name)}

\* the content of every file of the export tree that is no backup
Targets(e) ==
    [f \in Files(e) \ Backups(e) |-> e.entries[f[1]].tree[f[2]]]

PatchFunctions ==
    {<<"p", "a", "t", "c", "h", "_", "r", "e", "v", "e", "a", "l", "_", "c", "s", "s">>, <<"p", "a", "t", "c", "h", "_", "n", "o", "t", "e", "s">>, <<"p", "a", "t", "c", "h", "_", "r", "e", "v", "e", "a", "l", "_", "t", "h", "e", "m", "e", "s">>,
     <<"p", "a", "t", "c", "h", "_", "c", "h", "a", "l", "k", "b", "o", "a", "r", "d">>, <<"p", "a", "t", "c", "h">>}

\* C1: after copy(), a patch operation run twice in succession completes both
\* times, and the second run leaves every target file as the first run left it.
C1_PatchTwice ==
    [][/\ (idx = 2 /\ exc = NoExc /\ idx' = 3) => exc' = NoExc
       /\ (idx = 3 /\ exc = NoExc /\ idx' = 4) =>
              exc' = NoExc /\ Targets(export') = Targets(export)]_vars

\* C2: whenever a backup file exists, its content is the content its target
\* had immediately after the last copy().
C2_BackupIsUpstream ==
    \A f \in Backups(export) :
        /\ f[1] \in DOMAIN upstream
        /\ TargetOf(f[2]) \in DOMAIN upstream[f[1]].tree
        /\ export.entries[f[1]].tree[f[2]] = upstream[f[1]].tree[TargetOf(f[2])]

\* the comment-out patch has run twice in one process; the target now differs
\* from its backup
C2_Witness ==
    /\ argv = <<<<"p", "a", "t", "c", "h", "-", "r", "e", "v", "e", "a", "l", "-", "c", "s", "s">>, <<"p", "a", "t", "c", "h", "-", "r", "e", "v", "e", "a", "l", "-", "c", "s", "s">>>>
    /\ idx = 3
    /\ exc = NoExc
    /\ <<RevealJs, [sub |-> "css", name |-> <<"r", "e", "v", "e", "a", "l", ".", "c", "s", "s", ".", "u", "p", "s", "t", "r", "e", "a", "m">>]>> \in Backups(export)
    /\ export.entries[RevealJs].tree[css_path]
         # export.entries[RevealJs].tree[[sub |-> "css", name |-> <<"r", "e", "v", "e", "a", "l", ".", "c", "s", "s", ".", "u", "p", "s", "t", "r", "e", "a", "m">>]]

\* C3 as stated: a backup that exists in one state exists in every later
\* state, whatever operation runs.
C3_BackupNeverRemoved == [][Backups(export) \subseteq Backups(export')]_vars

\* C3 as amended: no patch operation, and no step other than copy, build and
\* clean, removes a backup; clean and a copy that passes the dependency gate
\* remove every backup together with the export directory.
C3_OnlyCopyAndCleanRemoveBackups ==
    [][/\ ~(Backups(export) \subseteq Backups(export')) =>
              Step("rise-reveal") /\ Key \in {<<"c", "o", "p", "y">>, <<"b", "u", "i", "l", "d">>, <<"c", "l", "e", "a", "n">>}
       /\ (Step("rise-reveal") /\ Key = <<"c", "l", "e", "a", "n">>) => Backups(export') = {}
       /\ (Step("rise-reveal") /\ Key = <<"c", "o", "p", "y">> /\ is_dir(node_modules)) =>
              Backups(export') = {}]_vars

\* the second patch operation of a process has run and the backups of the
\* first are in place
C3_Witness ==
    /\ argv = <<<<"p", "a", "t", "c", "h">>, <<"p", "a", "t", "c", "h", "-", "n", "o", "t", "e", "s">>>>
    /\ idx = 3
    /\ exc = NoExc
    /\ Cardinality(Backups(export)) >= 4

\* C4: with the dependency directory and the sources present, each vendor copy
\* completes, whatever is at the destination, and leaves there exactly the
\* relative paths of its sources.
C4_VendorCopyReplaces ==
    [][/\ (Step("rise-reveal") /\ Key = <<"c", "o", "p", "y">> /\ is_dir(node_modules)
             /\ {RevealJs, ChalkboardSrc} \subseteq DOMAIN node_modules.entries) =>
              /\ exc' = NoExc
              /\ DOMAIN export'.entries = {RevealJs, Chalkboard}
              /\ DOMAIN export'.entries[RevealJs].tree
                   = DOMAIN node_modules.entries[RevealJs].tree
              /\ DOMAIN export'.entries[Chalkboard].tree
                   = DOMAIN node_modules.entries[ChalkboardSrc].tree
       /\ (Step("classic") /\ Key = <<"i", "n", "s", "t", "a", "l", "l", "_", "r", "i", "s", "e", "_", "r", "e", "v", "e", "a", "l">> /\ is_dir(c_node_modules)) =>
              /\ exc' = NoExc
              /\ \A n \in glob_reveal_js(export.entries) :
                    /\ n \in DOMAIN static'
                    /\ static'[n] = export.entries[n]]_vars

\* C5: clean() never raises and leaves none of its artifacts behind; on a
\* clean tree it changes nothing.
C5_CleanRemovesAll ==
    [][/\ (Step("rise-reveal") /\ Key = <<"c", "l", "e", "a", "n">>) =>
              /\ exc' = NoExc
              /\ ~is_dir(node_modules') /\ ~is_dir(export')
              /\ (~is_dir(node_modules) /\ ~is_dir(export)) => FS' = FS
       /\ (Step("classic") /\ Key = <<"c", "l", "e", "a", "n">>) =>
              /\ exc' = NoExc
              /\ c_node_modules'.kind = "absent" /\ main_css'.kind = "absent"
              /\ glob_reveal_js(static') = {}
              /\ (/\ c_node_modules.kind = "absent" /\ main_css.kind = "absent"
                  /\ glob_reveal_js(static) = {}) => FS' = FS]_vars

GatedFunctions(s) == Functions(s) \ {<<"c", "l", "e", "a", "n">>}

DependenciesOf(s) == IF s = "rise-reveal" THEN node_modules ELSE c_node_modules

\* C6: a gated operation called while node_modules is no directory raises the
\* error that names the operation with hyphens, starts no process and leaves
\* the file system as it was.
C6_GateRaises ==
    [][\A s \in Scripts :
          (/\ Step(s)
           /\ Underscore(argv[idx]) \in GatedFunctions(s)
           /\ ~is_dir(DependenciesOf(s))) =>
              /\ exc'.type = "EnvironmentError"
              /\ EndsWith(exc'.arg, <<"b", "e", "f", "o", "r", "e", " ", "r", "u", "n", "n", "i", "n", "g", " ", "\"", "n", "p", "m", " ", "r", "u", "n", " ">>
                                    \o Hyphenated(argv[idx]) \o <<"\"">>)
              /\ FS' = FS
              /\ procs' = procs]_vars

\* clean has removed node_modules and the next call of the same process, a
\* gated one, has raised
C6_Witness ==
    /\ script = "rise-reveal"
    /\ argv = <<<<"c", "l", "e", "a", "n">>, <<"p", "a", "t", "c", "h", "_", "n", "o", "t", "e", "s">>>>
    /\ idx = 3
    /\ exc.type = "EnvironmentError"
    /\ Len(calls) = 2

Entry(name, depth) == [name |-> name, depth |-> depth]

\* the calls a composite makes, in the order the claim gives
StepsOf(name, d) ==
    IF name = <<"b", "u", "i", "l", "d">>
    THEN <<Entry(<<"c", "o", "p", "y">>, d + 1), Entry(<<"p", "a", "t", "c", "h">>, d + 1),
           Entry(<<"p", "a", "t", "c", "h", "_", "r", "e", "v", "e", "a", "l", "_", "c", "s", "s">>, d + 2), Entry(<<"p", "a", "t", "c", "h", "_", "n", "o", "t", "e", "s">>, d + 2),
           Entry(<<"p", "a", "t", "c", "h", "_", "r", "e", "v", "e", "a", "l", "_", "t", "h", "e", "m", "e", "s">>, d + 2), Entry(<<"p", "a", "t", "c", "h", "_", "c", "h", "a", "l", "k", "b", "o", "a", "r", "d">>, d + 2)>>
    ELSE <<Entry(<<"p", "a", "t", "c", "h", "_", "r", "e", "v", "e", "a", "l", "_", "c", "s", "s">>, d + 1), Entry(<<"p", "a", "t", "c", "h", "_", "n", "o", "t", "e", "s">>, d + 1),
           Entry(<<"p", "a", "t", "c", "h", "_", "r", "e", "v", "e", "a", "l", "_", "t", "h", "e", "m", "e", "s">>, d + 1), Entry(<<"p", "a", "t", "c", "h", "_", "c", "h", "a", "l", "k", "b", "o", "a", "r", "d">>, d + 1)>>

TopCalls == {i \in DOMAIN calls : calls[i].depth = 0}

\* the calls made below the top-level call at position i
Nested(i) ==
    LET later == {j \in TopCalls : j > i}
        end == IF later = {} THEN Len(calls)
               ELSE (CHOOSE j \in later : \A k \in later : j <= k) - 1
    IN  SubSeq(calls, i + 1, end)

BackupOf(p, marker) == [p EXCEPT !.name = @ \o marker]

\* the backup of a target exists and the target holds the given text
Holds(d, target, ups, text) ==
    /\ ExFile(World, d, ups)
    /\ ExFile(World, d, target)
    /\ ExRead(World, d, target) = text

Backup(d, p, marker) == ExRead(World, d, BackupOf(p, marker))

\* what a step of a composite leaves behind when it returns
EffectOf(name) ==
    CASE name = <<"c", "o", "p", "y">> ->
            is_dir(export) /\ DOMAIN export.entries = {RevealJs, Chalkboard}
      [] name = <<"p", "a", "t", "c", "h", "_", "r", "e", "v", "e", "a", "l", "_", "c", "s", "s">> ->
            Holds(RevealJs, css_path, BackupOf(css_path, <<".", "u", "p", "s", "t", "r", "e", "a", "m">>),
                  css_patched(Backup(RevealJs, css_path, <<".", "u", "p", "s", "t", "r", "e", "a", "m">>)))
      [] name = <<"p", "a", "t", "c", "h", "_", "n", "o", "t", "e", "s">> ->
            /\ Holds(RevealJs, notes_js_path, BackupOf(notes_js_path, <<".", "p", "a", "t", "c", "h", "e", "d">>),
                     notes_js_patched(Backup(RevealJs, notes_js_path, <<".", "p", "a", "t", "c", "h", "e", "d">>)))
            /\ Holds(RevealJs, notes_html_path, BackupOf(notes_html_path, <<".", "p", "a", "t", "c", "h", "e", "d">>),
                     notes_html_patched(Backup(RevealJs, notes_html_path, <<".", "p", "a", "t", "c", "h", "e", "d">>)))
      [] name = <<"p", "a", "t", "c", "h", "_", "r", "e", "v", "e", "a", "l", "_", "t", "h", "e", "m", "e", "s">> ->
            \A p \in {theme_black_path, theme_sky_path} :
                Holds(RevealJs, p, BackupOf(p, <<".", "p", "a", "t", "c", "h", "e", "d">>),
                      themes_patched(Backup(RevealJs, p, <<".", "p", "a", "t", "c", "h", "e", "d">>)))
      [] OTHER -> TRUE

\* C7: build calls copy, then patch, which calls the four patch rules in the
\* order reveal CSS, notes, themes, chalkboard; a step is called only after
\* every step before it has returned with its effect in place, the steps stop
\* short only on an exception, and the effects of the steps that returned
\* stay.
C7_CompositeOrder ==
    \A i \in TopCalls :
        calls[i].name \in {<<"b", "u", "i", "l", "d">>, <<"p", "a", "t", "c", "h">>} =>
            LET seg == Nested(i)
                want == StepsOf(calls[i].name, 0)
                last == \A j \in TopCalls : j <= i
            IN  /\ Len(seg) <= Len(want)
                /\ seg = SubSeq(want, 1, Len(seg))
                /\ Len(seg) < Len(want) => exc # NoExc /\ last
                /\ last => \A k \in 1..(Len(seg) - 1) : EffectOf(seg[k].name)

\* build has stopped in patch_notes, for want of notes.html, with the copy
\* and the comment-out patch in place and no later rule called
C7_Witness ==
    /\ argv = <<<<"b", "u", "i", "l", "d">>>>
    /\ exc.type = "FileNotFoundError"
    /\ Len(calls) = 5
    /\ calls[5] = Entry(<<"p", "a", "t", "c", "h", "_", "n", "o", "t", "e", "s">>, 2)
    /\ EffectOf(<<"p", "a", "t", "c", "h", "_", "r", "e", "v", "e", "a", "l", "_", "c", "s", "s">>)

\* C8: the loop calls, for each argument in turn, the function the argument
\* names once hyphens are underscores; an argument that names no function
\* ends the process with a KeyError or TypeError, calls nothing, and leaves the
\* file system as the earlier arguments made it; after an exception no further
\* argument is looked at.
C8_Dispatch ==
    [][/\ \A s \in Scripts : Step(s) =>
              IF Underscore(argv[idx]) \in Functions(s)
              THEN /\ Len(calls') > Len(calls)
                   /\ SubSeq(calls', 1, Len(calls)) = calls
                   /\ calls'[Len(calls) + 1] = Entry(Underscore(argv[idx]), 0)
                   /\ \A j \in (Len(calls) + 2)..Len(calls') : calls'[j].depth > 0
              ELSE /\ exc'.type \in {"KeyError", "TypeError"}
                   /\ calls' = calls
                   /\ procs' = procs
                   /\ FS' = FS
       /\ idx' # idx => (idx' = idx + 1 /\ argv' = argv) \/ idx' = 1
       /\ exc # NoExc => idx' # idx + 1
       /\ calls' # calls => idx' = idx + 1 \/ calls' = <<>>
       /\ LET top == SelectSeq(calls', LAMBDA c : c.depth = 0)
          IN  /\ Len(top) <= idx' - 1
              /\ \A i \in DOMAIN top : top[i].name = Underscore(argv'[i])]_vars

\* copy has run, the next argument named nothing, and the process has ended
\* there with the copied tree in place
C8_Witness ==
    /\ script = "rise-reveal"
    /\ argv = <<<<"c", "o", "p", "y">>, <<"l", "i", "n", "t">>>>
    /\ idx = 3
    /\ exc.type = "KeyError"
    /\ calls = <<Entry(<<"c", "o", "p", "y">>, 0)>>
    /\ is_dir(export)

\* C9: on every platform, watch_less called with node_modules present starts
\* the watcher with the compile command and the Less directory.
C9_WatchStartsWatcher ==
    [][(Step("classic") /\ Key = <<"w", "a", "t", "c", "h", "_", "l", "e", "s", "s">> /\ is_dir(c_node_modules)) =>
          /\ exc'.type # "UnboundLocalError"
          /\ Len(procs') = Len(procs) + 1
          /\ procs'[Len(procs')].prog.sub = "node_modules/.bin"
          /\ StartsAt(procs'[Len(procs')].prog.name, 1, <<"w", "a", "t", "c", "h">>)
          /\ procs'[Len(procs')].args = <<"npm run less", "src/less">>]_vars

\* C10: after patch_reveal_css the target has the lines of the upstream text,
\* line 11 with /* before it and every other line as it was; an upstream text
\* of fewer than 11 lines is written back unchanged; the backup is the
\* upstream text.
C10_CommentOutLine11 ==
    (argv[2] = <<"p", "a", "t", "c", "h", "-", "r", "e", "v", "e", "a", "l", "-", "c", "s", "s">> /\ idx >= 3 /\ exc = NoExc) =>
        LET ups == BackupOf(css_path, <<".", "u", "p", "s", "t", "r", "e", "a", "m">>)
            before == upstream[RevealJs].tree[css_path]
            after == export.entries[RevealJs].tree[css_path]
            U == splitlines(before)
            T == splitlines(after)
        IN  /\ Len(T) = Len(U)
            /\ \A i \in DOMAIN U :
                  T[i] = IF i = CommentLine THEN <<"/", "*">> \o U[i] ELSE U[i]
            /\ Len(U) < CommentLine => after = before
            /\ ExFile(World, RevealJs, ups)
            /\ ExRead(World, RevealJs, ups) = before

=============================================================================
